---- MODULE Spec2Model ----
(***************************************************************************)
(* The libuv-java file bridge (src/main/native/file.cpp): the JNI facade   *)
(* functions Java_net_java_libuv_handles_Files__1*, the per-call           *)
(* FileRequest, the completion hook _fs_cb and the two FileCallbacks::fs_cb *)
(* overloads that convert a native completion into a Java callback.        *)
(*                                                                         *)
(* The native engine (libuv) and the JVM are modelled at their interface:  *)
(* a blocking call returns an outcome, a submission is accepted or         *)
(* rejected, an accepted request is completed once through the hook.       *)
(***************************************************************************)
EXTENDS Integers, Sequences, FiniteSets, TLC

VARIABLES calls, buffer, globalRefs, aborted, file, order, bound, build

vars == <<calls, buffer, globalRefs, aborted, file, order, bound, build>>

(***************************************************************************)
(* Bounds of the model.                                                    *)
(***************************************************************************)
\* number of facade calls made in one behaviour
MaxCalls == 2
\* length of the managed byte array handed to read and write
BufLen == 3
\* width in bits of the native timestamp (time_t), scaled down
TimeBits == 16

(***************************************************************************)
(* Small input domains.                                                    *)
(***************************************************************************)
\* the jint callback argument of the k-th call: 0 selects the blocking form,
\* and a caller that wants a callback numbers its calls
CallbackIds(k) == {0, k}
\* FileCallbacks instances (the jlong callback_ptr)
Dispatchers == {1, 2}
\* the values of a managed byte
Bytes == {0, 1, 2}
\* the bytes of the file at the position read and written, before any write:
\* distinct, and none is the initial content of the managed array
FileData == <<1, 2>>
\* content of a freshly allocated, never written native byte
Uninit == 7
\* native error codes the engine reports (ENOENT, EBADF)
Errnos == {2, 9}
NullStr == "<null>"
PathArg == "missing"
NewPathArg == "newpath"
OpenedFd == 3

Min(a, b) == IF a < b THEN a ELSE b
Max(a, b) == IF a < b THEN b ELSE a

(***************************************************************************)
(* uv_fs_type: the operation kinds the facade submits.                     *)
(***************************************************************************)
EmptyKinds == {"close", "rename", "unlink", "rmdir", "mkdir", "ftruncate", "fsync",
               "fdatasync", "link", "symlink", "chmod", "fchmod", "chown", "fchown"}
LongKinds == {"utime", "futime", "write"}
StatKinds == {"stat", "lstat", "fstat"}
Kinds == EmptyKinds \cup LongKinds \cup StatKinds
           \cup {"open", "read", "readlink", "readdir", "sendfile"}

(***************************************************************************)
(* Native values: a pointer is NULL or points at a block of integers (a    *)
(* uv_statbuf_t, a C string, a NUL-separated name buffer).                 *)
(***************************************************************************)
NullPtr == [tag |-> "null", v |-> <<>>]
Ptr(tag, v) == [tag |-> tag, v |-> v]

\* st_dev, st_ino, st_mode, st_nlink, st_uid, st_gid, st_rdev, st_size,
\* st_blksize, st_blocks, st_atime, st_mtime, st_ctime
SampleStat == <<1, 42, 420, 1, 1000, 1000, 0, 5, 4096, 8, 1, 2, 3>>
\* the range of time_t
MaxTime == 2 ^ (TimeBits - 1) - 1
MinTime == 0 - 2 ^ (TimeBits - 1)
\* st_atime, st_mtime, st_ctime: after the epoch, at and before it, and at the
\* ends of the range
StatTimes == { <<1, 2, 3>>, <<0, -1, -32>>, <<MaxTime, MinTime, 33>> }
SampleStats == { [j \in 1..13 |-> IF j > 10 THEN t[j - 10] ELSE SampleStat[j]] :
                   t \in StatTimes }
\* "ab" as a C string, without its terminator
SampleLink == <<97, 98>>
\* name buffers of uv_fs_readdir: [count, NUL-terminated names]
SampleDirs == { [count |-> 0, buf |-> <<>>],
                [count |-> 1, buf |-> <<97, 98, 0>>],
                [count |-> 2, buf |-> <<97, 0, 98, 0>>] }

(***************************************************************************)
(* Java values handed to the callback or returned to the caller.           *)
(***************************************************************************)
JVal(type, v, s, elems) == [type |-> type, v |-> v, s |-> s, elems |-> elems]
JNull == JVal("null", <<>>, <<>>, <<>>)
JUndef == JVal("undefined", <<>>, <<>>, <<>>)
JInteger(n) == JVal("Integer", <<n>>, <<>>, <<>>)
JLong(n) == JVal("Long", <<n>>, <<>>, <<>>)
JString(chars) == JVal("String", chars, <<>>, <<>>)
JStats(fields) == JVal("Stats", fields, <<>>, <<>>)
JByteArray == JVal("byte[]", <<>>, <<>>, <<>>)
JArray(elems) == JVal("Object[]", <<>>, <<>>, elems)
\* NewException / ThrowException (env, errorno, syscall, message, path)
JException(code, syscall, msg, path) == JVal("Exception", <<code>>, <<syscall, msg, path>>, <<>>)

(***************************************************************************)
(* FileRequest: the per-call record of an asynchronous operation.          *)
(***************************************************************************)
NoRequest == [alloc |-> "none", _callback_ptr |-> 0, _callback_id |-> 0,
              _read_buffer_offset |-> 0, _read_buffer |-> FALSE,
              _byte_array |-> <<>>, hasArray |-> FALSE]

\* FileRequest::FileRequest: the scratch array exists only for a positive size,
\* the destination buffer is kept through a JNI global reference when given
FileRequest(ptr, id, read_buffer, byte_array_size, offset) ==
  [alloc |-> "live", _callback_ptr |-> ptr, _callback_id |-> id,
   _read_buffer_offset |-> offset, _read_buffer |-> read_buffer,
   _byte_array |-> IF byte_array_size > 0 THEN [j \in 1..byte_array_size |-> Uninit] ELSE <<>>,
   hasArray |-> byte_array_size > 0]

\* the steps of the constructor, as they appear in a call's trace
CtorSteps(read_buffer, byte_array_size) ==
  <<"Created">> \o (IF byte_array_size > 0 THEN <<"new byte_array">> ELSE <<>>)
               \o (IF read_buffer THEN <<"NewGlobalRef">> ELSE <<>>)

\* FileRequest::~FileRequest
DtorSteps(request) ==
  (IF request.hasArray THEN <<"delete byte_array">> ELSE <<>>)
    \o (IF request._read_buffer THEN <<"DeleteGlobalRef">> ELSE <<>>)

\* a destructor that keeps the global reference
DtorRefs_Leak(request) == 0

\* global references the destructor gives back
DtorRefs(request) == IF request._read_buffer THEN 1 ELSE 0

new_request(ptr, id, read_buffer, byte_array_size, offset) ==
  FileRequest(ptr, id, read_buffer, byte_array_size, offset)

\* the overload with the dispatcher and the id in each other's place
new_request3_Swapped(ptr, id) == new_request(id, ptr, FALSE, 0, 0)

\* the three-argument overload: no buffer, no scratch array
new_request3(ptr, id) == new_request(ptr, id, FALSE, 0, 0)

(***************************************************************************)
(* JNI array copies.  A source byte that was never written, or that lies   *)
(* beyond the end of the native array, has an indeterminate value.         *)
(***************************************************************************)
\* SetByteArrayRegion(array, start, len, src): the possible resulting arrays
SetByteArrayRegion(array, start, len, src) ==
  IF start < 0 \/ len < 0 \/ start + len > Len(array)
    THEN {array}
    ELSE { [j \in 1..Len(array) |->
              IF j > start /\ j <= start + len
                THEN (IF j - start <= Len(src) /\ src[j - start] # Uninit
                        THEN src[j - start] ELSE x[j - start])
                ELSE array[j]] : x \in [1..len -> Bytes] }

\* GetByteArrayRegion(array, start, len, dst): dst after the copy
GetByteArrayRegion(array, start, len, dst) ==
  IF start < 0 \/ len < 0 \/ start + len > Len(array)
    THEN dst
    ELSE [j \in 1..Len(dst) |-> IF j <= len THEN array[start + j] ELSE dst[j]]

\* FileRequest::get_array_region_from_bytes: commit len scratch bytes
get_array_region_from_bytes(request, array, len) ==
  SetByteArrayRegion(array, request._read_buffer_offset, len, request._byte_array)

\* the source bytes staged from the start of the array, whatever the offset
get_bytes_from_array_region_FromStart(request, data, length, offset) ==
  GetByteArrayRegion(data, 0, length, request._byte_array)

\* FileRequest::get_bytes_from_array_region: stage source bytes
get_bytes_from_array_region(request, data, length, offset) ==
  GetByteArrayRegion(data, offset, length, request._byte_array)

(***************************************************************************)
(* Stat Codec and name-list decoding.                                      *)
(***************************************************************************)
\* #ifdef __POSIX__: whether the build reads st_blksize and st_blocks
POSIX == build.posix

\* a product computed in the width of time_t: the bits beyond it are lost
time_mul(t, k) == ((t * k - MinTime) % (2 ^ TimeBits)) + MinTime

\* the block size and the block count read whatever the platform
build_stats_AnyPlatform(ptr) ==
  IF ptr.tag # "null"
    THEN JStats([j \in 1..13 |->
                   IF j \in {11, 12, 13} THEN time_mul(ptr.v[j], 1000)
                   ELSE ptr.v[j]])
    ELSE JNull

\* FileCallbacks::build_stats
build_stats(ptr) ==
  IF ptr.tag # "null"
    THEN JStats([j \in 1..13 |->
                   IF j \in {9, 10} THEN (IF POSIX THEN ptr.v[j] ELSE 0)
                   ELSE IF j \in {11, 12, 13} THEN time_mul(ptr.v[j], 1000)
                   ELSE ptr.v[j]])
    ELSE JNull

\* strlen(namebuf) for namebuf = buf + pos - 1
RECURSIVE strlen(_, _)
strlen(buf, pos) ==
  IF pos > Len(buf) \/ buf[pos] = 0 THEN 0 ELSE 1 + strlen(buf, pos + 1)

\* NewStringUTF(namebuf): the characters before the terminator
NewStringUTF(buf, pos) == JString(SubSeq(buf, pos, pos + strlen(buf, pos) - 1))

\* namebuf left standing on the terminator of the name it has just read
advance_OnTerminator(buf, pos) == pos + strlen(buf, pos)

\* namebuf += strlen(namebuf) + 1
advance(buf, pos) == pos + strlen(buf, pos) + 1

\* the loop of case UV_FS_READDIR: nnames strings, each followed by its NUL
RECURSIVE readdir_names(_, _, _)
readdir_names(buf, pos, nnames) ==
  IF nnames <= 0 THEN <<>>
  ELSE <<NewStringUTF(buf, pos)>> \o readdir_names(buf, advance(buf, pos), nnames - 1)

\* where namebuf stands when the loop is over: one past the last byte read
RECURSIVE readdir_end(_, _, _)
readdir_end(buf, pos, nnames) ==
  IF nnames <= 0 THEN pos ELSE readdir_end(buf, advance(buf, pos), nnames - 1)

(***************************************************************************)
(* FileCallbacks: the two conversions of a completion into a callback.     *)
(* Each yields the set of possible outcomes [cbs, buf, abort]: the Java    *)
(* callbacks invoked, the managed byte array afterwards, and whether an    *)
(* assertion stopped the process.                                          *)
(***************************************************************************)
Callback(method, instance, fs_type, id, arg) ==
  [method |-> method, instance |-> instance, fs_type |-> fs_type, id |-> id, arg |-> arg]

\* what _instance holds before FileCallbacks::initialize has run: the
\* constructor leaves the member unset, so it is no receiver at all
Unbound == 0

\* the Java receiver bound by FileCallbacks::initialize
_instance(ptr) == IF ptr \in bound THEN ptr ELSE Unbound

\* the switch of fs_cb for the kinds that end in the single-argument callback:
\* the value assigned to arg
fs_cb_arg_IntForLong(fs_type, result, ptr) ==
  CASE fs_type \in EmptyKinds -> JNull
    [] fs_type = "open" -> JInteger(result)
    [] fs_type \in LongKinds -> JInteger(result)
    [] fs_type \in StatKinds -> build_stats(ptr)
    [] fs_type = "readlink" -> NewStringUTF(ptr.v, 1)
    [] OTHER -> JUndef

\* the byte count of a transfer replaced by the status of its completion
fs_cb_arg_StatusForCount(fs_type, result, ptr) ==
  CASE fs_type \in EmptyKinds -> JNull
    [] fs_type = "open" -> JInteger(result)
    [] fs_type \in LongKinds -> JLong(0)
    [] fs_type \in StatKinds -> build_stats(ptr)
    [] fs_type = "readlink" -> NewStringUTF(ptr.v, 1)
    [] OTHER -> JUndef

fs_cb_arg(fs_type, result, ptr) ==
  CASE fs_type \in EmptyKinds -> JNull
    [] fs_type = "open" -> JInteger(result)
    [] fs_type \in LongKinds -> JLong(result)
    [] fs_type \in StatKinds -> build_stats(ptr)
    [] fs_type = "readlink" -> NewStringUTF(ptr.v, 1)
    \* default: arg is never assigned
    [] OTHER -> JUndef

\* FileCallbacks::fs_cb(FileRequest*, uv_fs_type, ssize_t result, void* ptr)
fs_cb(request, fs_type, result, ptr, array) ==
  LET callback_id == request._callback_id
      instance == _instance(request._callback_ptr)
      one == [cbs |-> <<Callback("callback_1arg", instance, fs_type, callback_id,
                                 fs_cb_arg(fs_type, result, ptr))>>,
              buf |-> array, abort |-> FALSE]
  IN CASE fs_type = "read" ->
            { [cbs |-> <<Callback("callback_narg", instance, fs_type, callback_id,
                                  JArray(<<JLong(result), JByteArray>>))>>,
               buf |-> b, abort |-> FALSE]
                : b \in get_array_region_from_bytes(request, array, result) }
       [] fs_type = "readdir" ->
            { [cbs |-> <<Callback("callback_narg", instance, fs_type, callback_id,
                                  JArray(readdir_names(ptr.v, 1, result)))>>,
               buf |-> array, abort |-> FALSE] }
       [] fs_type \in EmptyKinds \cup LongKinds \cup StatKinds \cup {"open", "readlink"} ->
            { one }
       \* default: assert(0) stops a build with assertions; a build without
       \* them goes on to the single-argument callback
       [] OTHER -> { [cbs |-> <<>>, buf |-> array, abort |-> TRUE], one }

\* the error conversion going on into the single-argument callback as well
fs_cb_error_Twice(request, fs_type, errorno, path, array) ==
  LET callback_id == request._callback_id
      args == JArray(<<JInteger(-1), JException(errorno, NullStr, NullStr, path)>>)
  IN { [cbs |-> <<Callback("callback_narg", _instance(request._callback_ptr), fs_type,
                           callback_id, args),
                  Callback("callback_1arg", _instance(request._callback_ptr), fs_type,
                           callback_id, JUndef)>>,
        buf |-> array, abort |-> FALSE] }

\* the error conversion committing the scratch bytes as the success one does
fs_cb_error_Commit(request, fs_type, errorno, path, array) ==
  LET callback_id == request._callback_id
      args == JArray(<<JInteger(-1), JException(errorno, NullStr, NullStr, path)>>)
  IN { [cbs |-> <<Callback("callback_narg", _instance(request._callback_ptr), fs_type,
                           callback_id, args)>>,
        buf |-> b, abort |-> FALSE]
         : b \in get_array_region_from_bytes(request, array, Len(request._byte_array)) }

\* FileCallbacks::fs_cb(FileRequest*, uv_fs_type, int errorno, const char* path)
fs_cb_error(request, fs_type, errorno, path, array) ==
  LET callback_id == request._callback_id
      error == JInteger(-1)
      exception == JException(errorno, NullStr, NullStr, path)
  IN { [cbs |-> <<Callback("callback_narg", _instance(request._callback_ptr), fs_type,
                           callback_id, JArray(<<error, exception>>))>>,
        buf |-> array, abort |-> FALSE] }

\* env->CallVoidMethod(_instance, ...) of either conversion: with _instance
\* never bound the reference is indeterminate, and the call either goes to
\* no receiver or stops the process
CallVoidMethod(ptr, outs) ==
  IF ptr \in bound THEN outs
  ELSE outs \cup { [cbs |-> <<>>, buf |-> o.buf, abort |-> TRUE] : o \in outs }

(***************************************************************************)
(* The native engine at its interface: what a call can come back with.     *)
(* A failure is a negative result (-1 in the engine the bridge was written  *)
(* against) with an error code; a success carries the result and the       *)
(* pointer of the operation kind.                                          *)
(***************************************************************************)
Outcome(result, errorno, ptr, data) ==
  [result |-> result, errorno |-> errorno, ptr |-> ptr, data |-> data]

Failures == { Outcome(r, e, NullPtr, <<>>) : r \in build.failing, e \in Errnos }

\* length is the transfer length of read, write and sendfile; canStore says
\* whether the engine was handed a non-NULL base address; a read finds the
\* bytes the file holds at the position
Successes(op, length, canStore) ==
  CASE op \in StatKinds -> { Outcome(0, 0, Ptr("stat", st), <<>>) : st \in SampleStats }
    [] op = "open" -> { Outcome(OpenedFd, 0, NullPtr, <<>>) }
    [] op \in {"readlink", "get_path"} -> { Outcome(0, 0, Ptr("str", SampleLink), <<>>) }
    [] op = "readdir" -> { Outcome(d.count, 0, Ptr("names", d.buf), <<>>) : d \in SampleDirs }
    [] op = "read" ->
         { Outcome(n, 0, NullPtr, SubSeq(file, 1, n)) :
             n \in 0..(IF canStore THEN Min(length, Len(file)) ELSE 0) }
    [] op \in {"write", "sendfile"} -> { Outcome(n, 0, NullPtr, <<>>) : n \in 0..length }
    [] OTHER -> { Outcome(0, 0, NullPtr, <<>>) }

Outcomes(op, length, canStore) == Failures \cup Successes(op, length, canStore)

\* the engine stores n bytes at base: those beyond the array's end are lost
StoreAt(base, data) ==
  [j \in 1..Len(base) |-> IF j <= Len(data) THEN data[j] ELSE base[j]]

\* the n bytes the engine takes from base for a write: a byte that was never
\* staged, or that lies beyond the end of base, has an indeterminate value
Written(base, n) ==
  { [j \in 1..n |-> IF j <= Len(base) /\ base[j] # Uninit THEN base[j] ELSE x[j]] :
      x \in [1..n -> Bytes] }

\* the file after the engine has written data at the position
WriteAt(f, data) ==
  [j \in 1..Max(Len(f), Len(data)) |-> IF j <= Len(data) THEN data[j] ELSE f[j]]

(***************************************************************************)
(* One record per facade call.                                             *)
(***************************************************************************)
Call(op, callback, callback_ptr, path, length, offset) ==
  [op |-> op, callback |-> callback, callback_ptr |-> callback_ptr, path |-> path,
   length |-> length, offset |-> offset,
   request |-> NoRequest, base |-> <<>>, hook |-> "NULL", state |-> "Called",
   ret |-> JNull, thrown |-> <<>>,
   result |-> 0, errorno |-> 0, ptr |-> NullPtr,
   callbacks |-> <<>>, trace |-> <<>>]

CanCall == ~aborted /\ Len(calls) < MaxCalls

\* the operations that take two path strings (path, new_path)
TwoPathKinds == {"rename", "link", "symlink"}
\* the jstring arguments an operation converts with GetStringUTFChars
PathCount(op, path) ==
  IF path = NullStr THEN 0 ELSE IF op \in TwoPathKinds THEN 2 ELSE 1

\* const char* cpath = env->GetStringUTFChars(path, 0), once per path string
Acquire(n) == [k \in 1..n |-> "GetStringUTFChars"]

\* only the first of the path strings given back
Release_FirstOnly(n) == [k \in 1..Min(n, 1) |-> "ReleaseStringUTFChars"]

\* env->ReleaseStringUTFChars(path, cpath), once per path string, after the
\* branch taken
Release(n) == [k \in 1..n |-> "ReleaseStringUTFChars"]

\* the asynchronous branch common to the operations without a buffer:
\* req->data = new_request(env, callback_ptr, callback); r = uv_fs_*(..., _fs_cb)
\* returnsR: the submission's return value is what the function returns
Submit(op, path, callback, callback_ptr, returnsR) ==
  \E accepted \in BOOLEAN :
    /\ calls' = Append(calls,
         [Call(op, callback, callback_ptr, path, 0, 0) EXCEPT
            !.request = new_request3(callback_ptr, callback),
            !.hook = "_fs_cb",
            !.state = IF accepted THEN "Submitted" ELSE "Created",
            !.ret = IF returnsR THEN JInteger(IF accepted THEN 0 ELSE -1) ELSE JNull,
            !.trace = Acquire(PathCount(op, path)) \o CtorSteps(FALSE, 0)
                        \o <<IF accepted THEN "Submitted" ELSE "Rejected">>
                        \o Release(PathCount(op, path))])
    /\ UNCHANGED <<buffer, globalRefs, aborted, file, order, bound, build>>

\* the failure test of a blocking branch: if (r < 0), or if (fd == -1) in _open
Negative == "r < 0"
MinusOne == "fd == -1"
IsFailure(test, r) == IF test = MinusOne THEN r = -1 ELSE r < 0

\* the blocking branch of the operations that return the native status:
\* r = uv_fs_*(..., NULL); uv_fs_req_cleanup(&req); if (failed) ThrowException(...)
Block(op, syscall, path, throwPath, test) ==
  \E out \in Outcomes(op, 1, TRUE) :
    /\ calls' = Append(calls,
         [Call(op, 0, 0, path, 0, 0) EXCEPT
            !.state = "Returned",
            !.result = out.result, !.errorno = out.errorno, !.ptr = out.ptr,
            !.ret = JInteger(out.result),
            !.thrown = IF IsFailure(test, out.result)
                         THEN <<JException(out.errorno, syscall, NullStr, throwPath)>>
                         ELSE <<>>,
            !.trace = Acquire(PathCount(op, path)) \o <<"uv_fs_req_cleanup">>
                        \o (IF IsFailure(test, out.result) THEN <<"ThrowException">> ELSE <<>>)
                        \o Release(PathCount(op, path))])
    /\ UNCHANGED <<buffer, globalRefs, aborted, file, order, bound, build>>


\* if (callback) { asynchronous branch } else { blocking branch }
StatusOp(op, syscall, path, throwPath, test, callback, callback_ptr) ==
  /\ CanCall
  /\ IF callback # 0
       THEN Submit(op, path, callback, callback_ptr, TRUE)
       ELSE Block(op, syscall, path, throwPath, test)

\* the blocking branch of the operations that return a converted object
\* (stat, lstat, fstat, readlink, readdir)
BlockObject(op, syscall, path, throwPath) ==
  \E out \in Outcomes(op, 0, TRUE) :
    /\ calls' = Append(calls,
         [Call(op, 0, 0, path, 0, 0) EXCEPT
            !.state = "Returned",
            !.result = out.result, !.errorno = out.errorno, !.ptr = out.ptr,
            !.ret = CASE op \in StatKinds -> build_stats(out.ptr)
                      [] op = "readdir" ->
                           IF out.result >= 0
                             THEN JArray(readdir_names(out.ptr.v, 1, out.result))
                             ELSE JNull
                      \* NewStringUTF(req.ptr): no string for a NULL req.ptr
                      [] OTHER -> IF out.ptr.tag = "null" THEN JNull
                                  ELSE NewStringUTF(out.ptr.v, 1),
            !.thrown = IF out.result < 0
                         THEN <<JException(out.errorno, syscall, NullStr, throwPath)>>
                         ELSE <<>>,
            !.trace = Acquire(PathCount(op, path))
                        \o (IF op = "readdir"
                              THEN (IF out.result < 0 THEN <<"ThrowException">> ELSE <<>>)
                                     \o <<"uv_fs_req_cleanup">>
                              ELSE <<"uv_fs_req_cleanup">>
                                     \o (IF out.result < 0 THEN <<"ThrowException">> ELSE <<>>))
                        \o Release(PathCount(op, path))])
    /\ UNCHANGED <<buffer, globalRefs, aborted, file, order, bound, build>>

\* the mode chosen by the dispatcher handle instead of the callback id
ObjectOp_ByPointer(op, syscall, path, throwPath, callback, callback_ptr) ==
  /\ CanCall
  /\ IF callback_ptr # 0
       THEN Submit(op, path, callback, callback_ptr, FALSE)
       ELSE BlockObject(op, syscall, path, throwPath)

\* the submission's return value is dropped: the function returns NULL
ObjectOp(op, syscall, path, throwPath, callback, callback_ptr) ==
  /\ CanCall
  /\ IF callback # 0
       THEN Submit(op, path, callback, callback_ptr, FALSE)
       ELSE BlockObject(op, syscall, path, throwPath)

(***************************************************************************)
(* The facade: Java_net_java_libuv_handles_Files__1<name>.                 *)
(***************************************************************************)
Files_close(callback, callback_ptr) ==
  StatusOp("close", "uv_fs_close", NullStr, NullStr, Negative, callback, callback_ptr)

Files_open(path, callback, callback_ptr) ==
  StatusOp("open", "uv_fs_open", path, path, MinusOne, callback, callback_ptr)

Files_unlink(path, callback, callback_ptr) ==
  StatusOp("unlink", "uv_fs_unlink", path, path, Negative, callback, callback_ptr)

Files_mkdir(path, callback, callback_ptr) ==
  StatusOp("mkdir", "uv_fs_mkdir", path, path, Negative, callback, callback_ptr)

Files_rmdir(path, callback, callback_ptr) ==
  StatusOp("rmdir", "uv_fs_rmdir", path, path, Negative, callback, callback_ptr)

Files_readdir(path, callback, callback_ptr) ==
  ObjectOp("readdir", "uv_fs_readdir", path, path, callback, callback_ptr)

Files_stat(path, callback, callback_ptr) ==
  ObjectOp("stat", "uv_fs_stat", path, path, callback, callback_ptr)

Files_fstat(callback, callback_ptr) ==
  ObjectOp("fstat", "uv_fs_fstat", NullStr, NullStr, callback, callback_ptr)

Files_rename(path, new_path, callback, callback_ptr) ==
  StatusOp("rename", "uv_fs_rename", path, path, Negative, callback, callback_ptr)

Files_fsync(callback, callback_ptr) ==
  StatusOp("fsync", "uv_fs_fsync", NullStr, NullStr, Negative, callback, callback_ptr)

Files_fdatasync(callback, callback_ptr) ==
  StatusOp("fdatasync", "uv_fs_fdatasync", NullStr, NullStr, Negative, callback, callback_ptr)

Files_ftruncate(callback, callback_ptr) ==
  StatusOp("ftruncate", "uv_fs_ftruncate", NullStr, NullStr, Negative, callback, callback_ptr)

Files_sendfile(callback, callback_ptr) ==
  StatusOp("sendfile", "uv_fs_sendfile", NullStr, NullStr, Negative, callback, callback_ptr)

Files_chmod(path, callback, callback_ptr) ==
  StatusOp("chmod", "uv_fs_chmod", path, path, Negative, callback, callback_ptr)

Files_utime(path, callback, callback_ptr) ==
  StatusOp("utime", "uv_fs_utime", path, path, Negative, callback, callback_ptr)

Files_futime(callback, callback_ptr) ==
  StatusOp("futime", "uv_fs_futime", NullStr, NullStr, Negative, callback, callback_ptr)

Files_lstat(path, callback, callback_ptr) ==
  ObjectOp("lstat", "uv_fs_lstat", path, path, callback, callback_ptr)

Files_link(path, new_path, callback, callback_ptr) ==
  StatusOp("link", "uv_fs_link", path, path, Negative, callback, callback_ptr)

Files_symlink(path, new_path, callback, callback_ptr) ==
  StatusOp("symlink", "uv_fs_symlink", path, path, Negative, callback, callback_ptr)

Files_readlink(path, callback, callback_ptr) ==
  ObjectOp("readlink", "uv_fs_readklink", path, path, callback, callback_ptr)

Files_fchmod(callback, callback_ptr) ==
  StatusOp("fchmod", "uv_fs_fchmod", NullStr, NullStr, Negative, callback, callback_ptr)

Files_chown(path, callback, callback_ptr) ==
  StatusOp("chown", "uv_fs_chown", path, path, Negative, callback, callback_ptr)

Files_fchown(callback, callback_ptr) ==
  StatusOp("fchown", "uv_fs_fchown", NullStr, NullStr, Negative, callback, callback_ptr)

\* the POSIX branch: a blocking uv_fs_readlink of /proc/self/fd/<fd>; the
\* function takes no callback argument and returns NULL after it has thrown
Files_get_path ==
  /\ CanCall
  /\ \E out \in Outcomes("get_path", 0, TRUE) :
       /\ calls' = Append(calls,
            [Call("get_path", 0, 0, NullStr, 0, 0) EXCEPT
               !.state = "Returned",
               !.result = out.result, !.errorno = out.errorno, !.ptr = out.ptr,
               !.ret = IF out.result < 0 \/ out.ptr.tag = "null" THEN JNull
                       ELSE NewStringUTF(out.ptr.v, 1),
               !.thrown = IF out.result < 0
                            THEN <<JException(out.errorno, "uv_fs_readlink", NullStr, NullStr)>>
                            ELSE <<>>,
               !.trace = <<"uv_fs_req_cleanup">>
                           \o (IF out.result < 0 THEN <<"ThrowException">> ELSE <<>>)])
       /\ UNCHANGED <<buffer, globalRefs, aborted, file, order, bound, build>>

\* the transfers <<length, offset>> a caller may ask for: offset + length
\* lies within the array
Transfers == { t \in (0..BufLen) \X (0..BufLen) : t[1] + t[2] <= BufLen }
\* the transfer of the whole array
WholeArray == { <<BufLen, 0>> }

Files_read(length, offset, callback, callback_ptr) ==
  /\ CanCall
  /\ IF callback # 0
       THEN \* buffer_size = length - offset; the request keeps the buffer
            LET buffer_size == length - offset
                request == new_request(callback_ptr, callback, TRUE, buffer_size, offset)
            IN \E accepted \in BOOLEAN :
                 /\ calls' = Append(calls,
                      [Call("read", callback, callback_ptr, NullStr, length, offset) EXCEPT
                         !.request = request,
                         !.base = request._byte_array,
                         !.hook = "_fs_cb",
                         !.state = IF accepted THEN "Submitted" ELSE "Created",
                         !.ret = JInteger(IF accepted THEN 0 ELSE -1),
                         !.trace = CtorSteps(TRUE, buffer_size)
                                     \o <<IF accepted THEN "Submitted" ELSE "Rejected">>])
                 /\ globalRefs' = globalRefs + 1
                 /\ UNCHANGED <<buffer, aborted, file, order, bound, build>>
       ELSE IF length - offset < 0
         THEN \* new jbyte[length - offset] with a negative size throws in native code
              /\ calls' = Append(calls,
                   [Call("read", 0, 0, NullStr, length, offset) EXCEPT
                      !.state = "Aborted", !.trace = <<"abort">>])
              /\ aborted' = TRUE
              /\ UNCHANGED <<buffer, globalRefs, file, order, bound, build>>
         ELSE \E out \in Outcomes("read", length, TRUE) :
              LET base == StoreAt([j \in 1..(length - offset) |-> Uninit], out.data)
              IN \E b \in SetByteArrayRegion(buffer, offset, length, base) :
                   /\ buffer' = b
                   /\ calls' = Append(calls,
                        [Call("read", 0, 0, NullStr, length, offset) EXCEPT
                           !.state = "Returned",
                           !.base = base,
                           !.result = out.result, !.errorno = out.errorno,
                           !.ret = JInteger(out.result),
                           !.thrown = IF out.result < 0
                                        THEN <<JException(out.errorno, "uv_fs_read", NullStr, NullStr)>>
                                        ELSE <<>>,
                           !.trace = <<"new base", "SetByteArrayRegion", "uv_fs_req_cleanup",
                                       "delete base">>
                                       \o (IF out.result < 0 THEN <<"ThrowException">> ELSE <<>>)])
                   /\ UNCHANGED <<globalRefs, aborted, file, order, bound, build>>

Files_write(length, offset, callback, callback_ptr) ==
  /\ CanCall
  /\ LET buffer_size == Len(buffer)
     IN IF callback # 0
          THEN LET request == new_request(callback_ptr, callback, FALSE, buffer_size, 0)
                   base == get_bytes_from_array_region(request, buffer, buffer_size - offset, offset)
               IN \E accepted \in BOOLEAN :
                    /\ calls' = Append(calls,
                         [Call("write", callback, callback_ptr, NullStr, length, offset) EXCEPT
                            !.request = [request EXCEPT !._byte_array = base],
                            !.base = base,
                            !.hook = "_fs_cb",
                            !.state = IF accepted THEN "Submitted" ELSE "Created",
                            !.ret = JInteger(IF accepted THEN 0 ELSE -1),
                            !.trace = CtorSteps(FALSE, buffer_size) \o <<"GetByteArrayRegion">>
                                        \o <<IF accepted THEN "Submitted" ELSE "Rejected">>])
                    /\ UNCHANGED file
          ELSE LET base == GetByteArrayRegion(buffer, offset, buffer_size - offset,
                                              [j \in 1..buffer_size |-> Uninit])
               IN \E out \in Outcomes("write", length, TRUE) :
                    \E w \in Written(base, Max(out.result, 0)) :
                      /\ calls' = Append(calls,
                           [Call("write", 0, 0, NullStr, length, offset) EXCEPT
                              !.state = "Returned",
                              !.base = base,
                              !.result = out.result, !.errorno = out.errorno,
                              !.ret = JInteger(out.result),
                              !.thrown = IF out.result < 0
                                           THEN <<JException(out.errorno, "uv_fs_write", NullStr, NullStr)>>
                                           ELSE <<>>,
                              !.trace = <<"new base", "GetByteArrayRegion", "uv_fs_req_cleanup",
                                          "delete base">>
                                          \o (IF out.result < 0 THEN <<"ThrowException">> ELSE <<>>)])
                      /\ file' = WriteAt(file, w)
  /\ UNCHANGED <<buffer, globalRefs, aborted, order, bound, build>>

\* the end of the hook with the request deleted twice
Teardown_DoubleDelete(request) ==
  <<"uv_fs_req_cleanup", "delete req", "delete request">> \o DtorSteps(request)
    \o <<"Disposed", "delete request">> \o DtorSteps(request) \o <<"Disposed">>

\* the end of the hook: uv_fs_req_cleanup(req); delete(req); delete(request)
Teardown(request) ==
  <<"uv_fs_req_cleanup", "delete req", "delete request">> \o DtorSteps(request)
    \o <<"Disposed">>

\* the cleanup run before the callbacks are made
HookSteps_CleanupFirst(completed, cbs, request) ==
  <<completed>> \o Teardown(request) \o [k \in 1..Len(cbs) |-> cbs[k].method]

\* the steps of one hook run: the conversion and its callbacks, then the
\* cleanup and the disposal
HookSteps(completed, cbs, request) ==
  <<completed>> \o [k \in 1..Len(cbs) |-> cbs[k].method] \o Teardown(request)

\* the hook run of call i as the loop sees it: the engine's completion, then
\* the n callbacks the hook invoked before it returned
Event(ev, i) == [ev |-> ev, call |-> i]

\* the callbacks put ahead of everything delivered so far
Deliver_Ahead(log, i, n) ==
  [k \in 1..n |-> Event("callback", i)] \o log \o <<Event("completion", i)>>

Deliver(log, i, n) ==
  log \o <<Event("completion", i)>> \o [k \in 1..n |-> Event("callback", i)]

\* the scratch bytes of the completed request seen by every other request
req_data_Shared(cs, i, c) ==
  [k \in 1..Len(cs) |->
     IF k = i THEN c
     ELSE [cs[k] EXCEPT !.request._byte_array = c.request._byte_array]]

\* FileRequest* request = req->data: the hook works on the request of the
\* completion it was called for, and on no other
req_data(cs, i, c) == [cs EXCEPT ![i] = c]

(***************************************************************************)
(* The completion hook.  The engine invokes it once for a request it       *)
(* accepted, with req->result, req->errorno, req->ptr and req->path set.   *)
(* The transfer of a read or a write happens as the request completes.     *)
(***************************************************************************)
_fs_cb(i) ==
  /\ ~aborted
  /\ calls[i].state = "Submitted"
  /\ LET c == calls[i]
     IN \E out \in Outcomes(c.op, c.length, c.request.hasArray) :
          LET request == [c.request EXCEPT
                            !._byte_array = IF c.op = "read" THEN StoreAt(@, out.data) ELSE @]
              outs == CallVoidMethod(c.callback_ptr,
                        IF out.result = -1
                          THEN fs_cb_error(request, c.op, out.errorno, c.path, buffer)
                          ELSE fs_cb(request, c.op, out.result, out.ptr, buffer))
              done == [c EXCEPT !.result = out.result, !.errorno = out.errorno,
                                !.ptr = out.ptr, !.request = request]
              completed == IF out.result = -1 THEN "CompletedFailure" ELSE "CompletedSuccess"
              writes == IF c.op = "write"
                          THEN Written(request._byte_array, Max(out.result, 0)) ELSE {<<>>}
          IN \E o \in outs, w \in writes :
               /\ UNCHANGED <<bound, build>>
               /\ file' = WriteAt(file, w)
               /\ order' = Deliver(order, i, Len(o.cbs))
               /\ IF o.abort
                    THEN /\ calls' = req_data(calls, i,
                               [done EXCEPT !.state = "Aborted",
                                            !.trace = @ \o <<completed, "abort">>])
                         /\ aborted' = TRUE
                         /\ UNCHANGED <<buffer, globalRefs>>
                    ELSE /\ calls' = req_data(calls, i,
                               [done EXCEPT
                                  !.state = "Disposed",
                                  !.callbacks = @ \o o.cbs,
                                  !.request.alloc = "deleted",
                                  !.trace = @ \o HookSteps(completed, o.cbs, request)])
                         /\ buffer' = o.buf
                         /\ globalRefs' = globalRefs - DtorRefs(request)
                         /\ UNCHANGED aborted

\* Java_net_java_libuv_handles_Files__1initialize: FileCallbacks::initialize
\* binds the Java receiver of the dispatcher
Files_initialize(ptr) ==
  /\ ~aborted
  /\ ptr \notin bound
  /\ bound' = bound \cup {ptr}
  /\ UNCHANGED <<calls, buffer, globalRefs, aborted, file, order, build>>

(***************************************************************************)
(* The specification.                                                      *)
(***************************************************************************)
\* the build the bridge was written for: __POSIX__ defined, and an engine
\* that reports every failure as result -1
HostBuild == [posix |-> TRUE, failing |-> {-1}]

Init ==
  /\ calls = <<>>
  /\ buffer = [j \in 1..BufLen |-> 0]
  /\ globalRefs = 0
  /\ aborted = FALSE
  /\ file = FileData
  /\ order = <<>>
  /\ bound = Dispatchers
  /\ build = HostBuild

Next ==
  \/ \E callback \in CallbackIds(Len(calls) + 1), callback_ptr \in Dispatchers :
       \/ Files_close(callback, callback_ptr)
       \/ Files_open(PathArg, callback, callback_ptr)
       \/ Files_unlink(PathArg, callback, callback_ptr)
       \/ Files_mkdir(PathArg, callback, callback_ptr)
       \/ Files_rmdir(PathArg, callback, callback_ptr)
       \/ Files_readdir(PathArg, callback, callback_ptr)
       \/ Files_stat(PathArg, callback, callback_ptr)
       \/ Files_fstat(callback, callback_ptr)
       \/ Files_rename(PathArg, NewPathArg, callback, callback_ptr)
       \/ Files_fsync(callback, callback_ptr)
       \/ Files_fdatasync(callback, callback_ptr)
       \/ Files_ftruncate(callback, callback_ptr)
       \/ Files_sendfile(callback, callback_ptr)
       \/ Files_chmod(PathArg, callback, callback_ptr)
       \/ Files_utime(PathArg, callback, callback_ptr)
       \/ Files_futime(callback, callback_ptr)
       \/ Files_lstat(PathArg, callback, callback_ptr)
       \/ Files_link(PathArg, NewPathArg, callback, callback_ptr)
       \/ Files_symlink(PathArg, NewPathArg, callback, callback_ptr)
       \/ Files_readlink(PathArg, callback, callback_ptr)
       \/ Files_fchmod(callback, callback_ptr)
       \/ Files_chown(PathArg, callback, callback_ptr)
       \/ Files_fchown(callback, callback_ptr)
       \/ \E t \in WholeArray : Files_read(t[1], t[2], callback, callback_ptr)
       \/ \E t \in WholeArray : Files_write(t[1], t[2], callback, callback_ptr)
  \/ Files_get_path
  \/ \E i \in 1..Len(calls) : _fs_cb(i)

\* every operation in both modes, on two dispatchers; read and write move the
\* whole array
Spec == Init /\ [][Next]_vars

NextIO ==
  \/ \E callback \in CallbackIds(Len(calls) + 1), t \in Transfers :
       \/ Files_read(t[1], t[2], callback, 1)
       \/ Files_write(t[1], t[2], callback, 1)
  \/ \E i \in 1..Len(calls) : _fs_cb(i)

\* reads and writes of every transfer within the array, on one dispatcher
SpecIO == Init /\ [][NextIO]_vars

\* the loop is run: a request the engine accepted is completed in the end
FairSpecIO == SpecIO /\ WF_vars(\E i \in 1..Len(calls) : _fs_cb(i))

\* what the caller has put into the managed array: bytes that differ from
\* their neighbours and from the file's
SourceData == [j \in 1..BufLen |-> (j + 1) % 3]

InitRT ==
  /\ calls = <<>>
  /\ buffer = SourceData
  /\ globalRefs = 0
  /\ aborted = FALSE
  /\ file = FileData
  /\ order = <<>>
  /\ bound = Dispatchers
  /\ build = HostBuild

\* reads and writes on an array the caller has filled
SpecRT == InitRT /\ [][NextIO]_vars

\* the other builds: a platform without __POSIX__, and an engine that reports
\* a failure as another negative result as well
Builds == [posix : BOOLEAN, failing : { {-1}, {-1, -2} }]

InitEnv ==
  /\ calls = <<>>
  /\ buffer = [j \in 1..BufLen |-> 0]
  /\ globalRefs = 0
  /\ aborted = FALSE
  /\ file = FileData
  /\ order = <<>>
  /\ bound = {}
  /\ build \in Builds

NextEnv ==
  \/ Files_initialize(1)
  \/ \E callback \in CallbackIds(Len(calls) + 1) :
       \/ Files_close(callback, 1)
       \/ Files_open(PathArg, callback, 1)
       \/ Files_stat(PathArg, callback, 1)
       \/ Files_sendfile(callback, 1)
       \/ \E t \in WholeArray : Files_read(t[1], t[2], callback, 1)
  \/ \E i \in 1..Len(calls) : _fs_cb(i)

\* a few operations in both modes on every build, with the dispatcher bound
\* at some moment or never
SpecEnv == InitEnv /\ [][NextEnv]_vars

TypeOK ==
  /\ Len(calls) <= MaxCalls
  /\ globalRefs \in 0..MaxCalls
  /\ buffer \in [1..BufLen -> Bytes]
  /\ aborted \in BOOLEAN
  /\ Len(file) <= Max(BufLen, Len(FileData))
  /\ \A j \in 1..Len(file) : file[j] \in Bytes
  /\ Len(order) <= 3 * MaxCalls
  /\ bound \subseteq Dispatchers
  /\ build \in Builds

(***************************************************************************)
(* Vocabulary of the properties.                                           *)
(***************************************************************************)
CallIds == 1..Len(calls)
IsAsync(c) == c.callback # 0
Has(seq, x) == \E k \in 1..Len(seq) : seq[k] = x
Count(seq, x) == Cardinality({ k \in 1..Len(seq) : seq[k] = x })
\* the first place of x in seq, Len(seq) + 1 when it has none
Place(seq, x) == IF Has(seq, x) THEN CHOOSE k \in 1..Len(seq) :
                                       seq[k] = x /\ \A m \in 1..(k - 1) : seq[m] # x
                 ELSE Len(seq) + 1
Succeeded(c) == Has(c.trace, "CompletedSuccess")
Failed(c) == Has(c.trace, "CompletedFailure")
Completed(c) == Succeeded(c) \/ Failed(c)
Completions(c) == Count(c.trace, "CompletedSuccess") + Count(c.trace, "CompletedFailure")
CallbackSteps(c) == Count(c.trace, "callback_1arg") + Count(c.trace, "callback_narg")
FirstCallback(c) == Min(Place(c.trace, "callback_1arg"), Place(c.trace, "callback_narg"))
FirstCompletion(c) ==
  Min(Place(c.trace, "CompletedSuccess"), Place(c.trace, "CompletedFailure"))

\* C1: an asynchronous Request's callback is invoked at most once and only
\* after the engine has produced its completion; a Request has at most one
\* completion, and none while it is still waiting
C1_AtMostOnceAfterCompletion ==
  \A i \in CallIds :
    LET c == calls[i]
    IN /\ Len(c.callbacks) <= 1
       /\ CallbackSteps(c) = Len(c.callbacks)
       /\ Completions(c) <= 1
       /\ c.callbacks # <<>> => Completed(c) /\ FirstCompletion(c) < FirstCallback(c)
       /\ c.state \in {"Created", "Submitted"} => ~Completed(c) /\ c.callbacks = <<>>

\* a completed Request with its one callback beside a Request still in flight
C1_Witness ==
  \E i, j \in CallIds :
    /\ calls[i].state = "Disposed" /\ Len(calls[i].callbacks) = 1
    /\ calls[j].state = "Submitted"

\* C2: a submitted and completed Request of any kind has exactly one
\* callback invocation, single-argument or array, never none and never both
C2_ExactlyOneInvocation ==
  \A i \in CallIds :
    IsAsync(calls[i]) /\ Completed(calls[i]) => Len(calls[i].callbacks) = 1

\* C3: every callback goes to the receiver of the dispatcher given at
\* submission and carries the id and the kind the call was made with, and
\* Requests in flight together have different ids
C3_Correlated ==
  /\ \A i \in CallIds :
       \A k \in 1..Len(calls[i].callbacks) :
         LET cb == calls[i].callbacks[k]
         IN /\ cb.instance = _instance(calls[i].callback_ptr)
            /\ cb.id = calls[i].callback
            /\ cb.fs_type = calls[i].op
  /\ \A i \in CallIds :
       IsAsync(calls[i]) =>
         /\ calls[i].request._callback_id = calls[i].callback
         /\ calls[i].request._callback_ptr = calls[i].callback_ptr
  /\ \A i, j \in CallIds :
       i # j /\ IsAsync(calls[i]) /\ IsAsync(calls[j])
         => calls[i].request._callback_id # calls[j].request._callback_id

\* the later of two Requests on different dispatchers has completed while
\* the earlier one is still in flight
C3_Witness ==
  \E i, j \in CallIds :
    /\ i < j
    /\ calls[i].callback_ptr # calls[j].callback_ptr
    /\ calls[i].op # calls[j].op
    /\ calls[i].state = "Submitted"
    /\ calls[j].state = "Disposed" /\ Len(calls[j].callbacks) = 1

\* the lifecycle steps of a trace, in order
RECURSIVE Lifecycle(_)
Lifecycle(trace) ==
  IF trace = <<>> THEN <<>>
  ELSE (IF Head(trace) \in {"Created", "Submitted", "CompletedSuccess",
                            "CompletedFailure", "Disposed"}
          THEN <<Head(trace)>> ELSE <<>>) \o Lifecycle(Tail(trace))

IsPrefix(p, q) == Len(p) <= Len(q) /\ SubSeq(q, 1, Len(p)) = p

\* C4: an asynchronous Request only moves Created -> Submitted ->
\* Completed-Success or Completed-Failure -> Disposed, is disposed at most
\* once and only after its completion
C4_Lifecycle ==
  \A i \in CallIds :
    LET c == calls[i]
        life == Lifecycle(c.trace)
    IN IsAsync(c) =>
         /\ \/ IsPrefix(life, <<"Created", "Submitted", "CompletedSuccess", "Disposed">>)
            \/ IsPrefix(life, <<"Created", "Submitted", "CompletedFailure", "Disposed">>)
         /\ life # <<>>
         /\ Count(c.trace, "delete request") <= 1
         /\ c.state \in {"Created", "Submitted", "Disposed"} => c.state = life[Len(life)]
         /\ (c.request.alloc = "deleted") = Has(c.trace, "Disposed")
         /\ Has(c.trace, "delete request") => Completed(c)

\* a Request that went through the whole lifecycle, on a failure
C4_Witness ==
  \E i \in CallIds :
    Lifecycle(calls[i].trace) = <<"Created", "Submitted", "CompletedFailure", "Disposed">>

\* asynchronous reads: the calls whose Request holds the destination buffer
Readers == { i \in CallIds : calls[i].op = "read" /\ IsAsync(calls[i]) }

\* C5: the global reference to the destination buffer of an asynchronous
\* read is taken when the Request is created, is still held when the
\* callback is invoked, and is given back once, when the Request is
\* deleted; when every read has completed no reference is outstanding
C5_StrongReference ==
  /\ globalRefs = Cardinality({ i \in CallIds : /\ calls[i].request._read_buffer
                                               /\ calls[i].request.alloc = "live" })
  /\ \A i \in Readers :
       LET c == calls[i]
       IN /\ c.request._read_buffer
          /\ Count(c.trace, "NewGlobalRef") = 1
          /\ c.state \in {"Created", "Submitted"} =>
               c.request.alloc = "live" /\ ~Has(c.trace, "DeleteGlobalRef")
          /\ c.state = "Disposed" =>
               /\ Count(c.trace, "DeleteGlobalRef") = 1
               /\ FirstCallback(c) < Place(c.trace, "DeleteGlobalRef")
               /\ Place(c.trace, "delete request") < Place(c.trace, "DeleteGlobalRef")
  /\ (\A i \in Readers : calls[i].state = "Disposed") => globalRefs = 0

\* two asynchronous reads were in flight together and both have completed
C5_Witness ==
  /\ Cardinality(Readers) = 2
  /\ \A i \in Readers : calls[i].state = "Disposed" /\ Len(calls[i].callbacks) = 1
  /\ globalRefs = 0

\* the name of the native operation behind each kind
OperationName ==
  [close |-> "uv_fs_close", open |-> "uv_fs_open", read |-> "uv_fs_read",
   write |-> "uv_fs_write", unlink |-> "uv_fs_unlink", mkdir |-> "uv_fs_mkdir",
   rmdir |-> "uv_fs_rmdir", readdir |-> "uv_fs_readdir", stat |-> "uv_fs_stat",
   lstat |-> "uv_fs_lstat", fstat |-> "uv_fs_fstat", rename |-> "uv_fs_rename",
   fsync |-> "uv_fs_fsync", fdatasync |-> "uv_fs_fdatasync",
   ftruncate |-> "uv_fs_ftruncate", sendfile |-> "uv_fs_sendfile",
   chmod |-> "uv_fs_chmod", fchmod |-> "uv_fs_fchmod", chown |-> "uv_fs_chown",
   fchown |-> "uv_fs_fchown", utime |-> "uv_fs_utime", futime |-> "uv_fs_futime",
   link |-> "uv_fs_link", symlink |-> "uv_fs_symlink", readlink |-> "uv_fs_readlink",
   get_path |-> "uv_fs_readlink"]

\* an error object built from this code, this operation and this path
IsErrorFor(e, code, op, path) ==
  /\ e.type = "Exception"
  /\ e.v = <<code>>
  /\ e.s[1] = OperationName[op]
  /\ e.s[3] = path

\* C6: a failed asynchronous Request gets one array callback holding
\* (-1, error), the error built from the native code, the operation name
\* and the path of the operation
C6_ErrorShape ==
  \A i \in CallIds :
    LET c == calls[i]
    IN IsAsync(c) /\ Failed(c) =>
         /\ Len(c.callbacks) = 1
         /\ c.callbacks[1].method = "callback_narg"
         /\ c.callbacks[1].arg.type = "Object[]"
         /\ Len(c.callbacks[1].arg.elems) = 2
         /\ c.callbacks[1].arg.elems[1] = JInteger(-1)
         /\ IsErrorFor(c.callbacks[1].arg.elems[2], c.errorno, c.op, c.path)

\* C7: a blocking call that fails raises one error holding the native
\* code, the operation name and the path of the operation; one that
\* succeeds raises none
C7_SyncError ==
  \A i \in CallIds :
    LET c == calls[i]
    IN ~IsAsync(c) /\ c.state = "Returned" =>
         /\ c.result < 0 =>
              Len(c.thrown) = 1 /\ IsErrorFor(c.thrown[1], c.errorno, c.op, c.path)
         /\ c.result >= 0 => c.thrown = <<>>

\* what an asynchronous call returns: the submission's status or nothing
SubmissionStatus == {JInteger(0), JInteger(-1), JNull}

\* C8: a call with a non-zero callback id creates a Request and registers
\* _fs_cb, converts nothing inline and raises nothing; a call with id zero
\* creates no Request and never gets a callback; get_path has no callback
C8_ModeSelection ==
  \A i \in CallIds :
    LET c == calls[i]
    IN /\ c.callback # 0 =>
            /\ c.request.alloc # "none"
            /\ Count(c.trace, "Created") = 1
            /\ c.hook = "_fs_cb"
            /\ c.thrown = <<>>
            /\ c.ret \in SubmissionStatus
            /\ ~Has(c.trace, "ThrowException")
            /\ c.state \in {"Created", "Submitted"} =>
                 ~Has(c.trace, "uv_fs_req_cleanup") /\ c.ptr = NullPtr
       /\ c.callback = 0 =>
            /\ c.request = NoRequest
            /\ ~Has(c.trace, "Created")
            /\ c.hook = "NULL"
            /\ c.callbacks = <<>>
            /\ c.state \in {"Returned", "Aborted"}
       /\ c.op = "get_path" => c.callback = 0

\* the same operation called once in each mode
C8_Witness ==
  \E i, j \in CallIds :
    /\ calls[i].op = calls[j].op
    /\ calls[i].callback = 0 /\ calls[i].state = "Returned" /\ calls[i].ret.type = "Stats"
    /\ calls[j].callback # 0 /\ calls[j].state = "Disposed"

\* C9: on success the callback of each kind has the shape of that kind
C9_SuccessShape ==
  \A i \in CallIds :
    LET c == calls[i]
        cb == c.callbacks[1]
    IN IsAsync(c) /\ Succeeded(c) /\ c.op # "sendfile" =>
         /\ Len(c.callbacks) = 1
         /\ c.op \in EmptyKinds => cb.method = "callback_1arg" /\ cb.arg = JNull
         /\ c.op = "open" => cb.method = "callback_1arg" /\ cb.arg = JInteger(c.result)
         /\ c.op \in LongKinds => cb.method = "callback_1arg" /\ cb.arg = JLong(c.result)
         /\ c.op \in StatKinds => cb.method = "callback_1arg" /\ cb.arg.type = "Stats"
         /\ c.op = "readlink" => cb.method = "callback_1arg" /\ cb.arg.type = "String"
         /\ c.op = "readdir" =>
              /\ cb.method = "callback_narg"
              /\ cb.arg.type = "Object[]"
              /\ \A k \in 1..Len(cb.arg.elems) : cb.arg.elems[k].type = "String"
         /\ c.op = "read" =>
              /\ cb.method = "callback_narg"
              /\ cb.arg.type = "Object[]"
              /\ Len(cb.arg.elems) = 2

\* a write and a stat that both completed with success
C9_Witness ==
  \E i, j \in CallIds :
    /\ calls[i].op = "write" /\ Succeeded(calls[i]) /\ calls[i].result > 0
    /\ calls[j].op = "stat" /\ Succeeded(calls[j])
    /\ Len(calls[i].callbacks) = 1 /\ Len(calls[j].callbacks) = 1

\* C10: the hook run that completes an asynchronous read with success
\* delivers (byteCount, destination) in one array callback, after copying
\* byteCount bytes of the scratch array to the destination from
\* destinationOffset on, and changes no other byte of the destination
C10_ReadCommit ==
  [][\A i \in CallIds :
       /\ calls[i].op = "read" /\ calls[i].state = "Submitted"
       /\ calls'[i].state = "Disposed" /\ Succeeded(calls'[i])
       => LET c == calls'[i]
              scratch == c.request._byte_array
          IN /\ Len(c.callbacks) = 1
             /\ c.callbacks[1].method = "callback_narg"
             /\ c.callbacks[1].arg = JArray(<<JLong(c.result), JByteArray>>)
             /\ \A j \in 1..Len(buffer) :
                  IF j > c.offset /\ j <= c.offset + c.result
                    THEN j - c.offset <= Len(scratch) /\ buffer'[j] = scratch[j - c.offset]
                    ELSE buffer'[j] = buffer[j]]_vars

\* the place of the k-th NUL of a name buffer
Terminator(buf, k) ==
  CHOOSE p \in 1..Len(buf) :
    buf[p] = 0 /\ Cardinality({ q \in 1..p : buf[q] = 0 }) = k

\* the bytes between the (k-1)-th NUL and the k-th
NameAt(buf, k) ==
  SubSeq(buf, IF k = 1 THEN 1 ELSE Terminator(buf, k - 1) + 1, Terminator(buf, k) - 1)

\* the names a readdir call has handed over: returned, or given to the callback
NamesOf(c) == IF IsAsync(c) THEN c.callbacks[1].arg.elems ELSE c.ret.elems

ReaddirDone(c) ==
  /\ c.op = "readdir" /\ c.result >= 0
  /\ IF IsAsync(c) THEN c.state = "Disposed" ELSE c.state = "Returned"

\* C11: readdir, blocking or not, turns a count K and a buffer of
\* NUL-terminated names into exactly K names in the buffer's order, each the
\* bytes before the next NUL, and the last byte it reads is the K-th NUL
\* (none at all for K = 0)
C11_ReaddirDecode ==
  \A i \in CallIds :
    LET c == calls[i]
    IN ReaddirDone(c) =>
         /\ NamesOf(c) \in Seq({ JString(NameAt(c.ptr.v, k)) : k \in 1..c.result })
         /\ Len(NamesOf(c)) = c.result
         /\ \A k \in 1..c.result : NamesOf(c)[k] = JString(NameAt(c.ptr.v, k))
         /\ readdir_end(c.ptr.v, 1, c.result) - 1 =
              (IF c.result = 0 THEN 0 ELSE Terminator(c.ptr.v, c.result))

\* the directory ["a", "b"] listed in both modes
C11_Witness ==
  \E i, j \in CallIds :
    /\ ReaddirDone(calls[i]) /\ ~IsAsync(calls[i])
    /\ ReaddirDone(calls[j]) /\ IsAsync(calls[j])
    /\ NamesOf(calls[i]) = <<JString(<<97>>), JString(<<98>>)>>
    /\ NamesOf(calls[j]) = <<JString(<<97>>), JString(<<98>>)>>

\* a read or a write that came back with a byte count
Delivered(c) ==
  /\ c.op \in {"read", "write"} /\ c.result >= 0
  /\ IF IsAsync(c) THEN c.state = "Disposed" ELSE c.state = "Returned"

\* the step in which the second call, a read, delivers its bytes after the
\* first call, a write of as many bytes, has delivered all of its own
ReadsBack ==
  /\ Len(calls) >= 1 /\ Len(calls') = 2
  /\ calls[1].op = "write" /\ Delivered(calls[1]) /\ calls[1].result = calls[1].length
  /\ calls'[2].op = "read" /\ Delivered(calls'[2]) /\ calls'[2].result = calls'[2].length
  /\ calls'[2].length = calls[1].length
  /\ ~(Len(calls) = 2 /\ Delivered(calls[2]))

\* C12: after a write of N bytes of the source, a read of N bytes from the
\* same position leaves those N bytes in the destination, from the
\* destination offset on, in either mode and for N = 0 as well
C12_RoundTrip ==
  [][ReadsBack =>
        \A k \in 1..calls[1].length :
          buffer'[calls'[2].offset + k] = SourceData[calls[1].offset + k]]_vars

\* the Stat value a stat, lstat or fstat call has handed over
StatOf(c) == IF IsAsync(c) THEN c.callbacks[1].arg ELSE c.ret

StatDone(c) ==
  /\ c.op \in StatKinds /\ c.result >= 0
  /\ IF IsAsync(c) THEN c.state = "Disposed" ELSE c.state = "Returned"

\* C13: the access, modify and change times of a Stat value are the native
\* seconds times 1000, for zero, positive and negative seconds, with no
\* wrap-around in the width of the native timestamp
C13_Timestamps ==
  \A i \in CallIds :
    LET c == calls[i]
    IN StatDone(c) =>
         /\ StatOf(c).type = "Stats"
         /\ \A j \in {11, 12, 13} : StatOf(c).v[j] = c.ptr.v[j] * 1000

\* the place in the loop's history of the completion, of the callback, of call i
CompletedAt(i) == Place(order, Event("completion", i))
CalledBackAt(i) == Place(order, Event("callback", i))
CalledBack(i) == Has(order, Event("callback", i))

\* C14: callbacks are invoked in the order in which the engine produces the
\* completions, whatever the order of submission: the callback of a Request
\* follows its completion at once, before any other completion
C14_CompletionOrder ==
  /\ \A i \in CallIds :
       /\ Count(order, Event("callback", i)) = Len(calls[i].callbacks)
       /\ Count(order, Event("completion", i)) = Completions(calls[i])
       /\ CalledBack(i) => CalledBackAt(i) = CompletedAt(i) + 1
  /\ \A i, j \in CallIds :
       CalledBack(i) /\ CalledBack(j) =>
         (CompletedAt(i) < CompletedAt(j) <=> CalledBackAt(i) < CalledBackAt(j))

\* the Request submitted second completed first and got its callback first
C14_Witness ==
  \E i, j \in CallIds :
    /\ i < j
    /\ calls[i].op # calls[j].op
    /\ CalledBack(i) /\ CalledBack(j)
    /\ CompletedAt(j) < CompletedAt(i)
    /\ CalledBackAt(j) < CalledBackAt(i)

\* an asynchronous call whose submission the engine turned down
Rejected(c) == IsAsync(c) /\ Has(c.trace, "Rejected")

\* C15: a submission the engine rejects is reported by every operation as a
\* negative return value of the call, and neither the hook nor the callback
\* ever runs for that Request
C15_RejectionReported ==
  \A i \in CallIds :
    LET c == calls[i]
    IN Rejected(c) =>
         /\ c.ret.type = "Integer" /\ c.ret.v[1] < 0
         /\ c.callbacks = <<>>
         /\ ~Completed(c)
         /\ ~Has(order, Event("completion", i))

\* the Request of call i is gone: scratch array freed, reference given back
Disposed(i) ==
  IF i \in CallIds
    THEN /\ calls[i].request.alloc = "deleted"
         /\ calls[i].request.hasArray => Has(calls[i].trace, "delete byte_array")
         /\ calls[i].request._read_buffer => Has(calls[i].trace, "DeleteGlobalRef")
    ELSE FALSE

\* call i has been made and has created a Request
HasRequest(i) == IF i \in CallIds THEN IsAsync(calls[i]) ELSE FALSE

\* C16: every Request that is created is disposed in the end, whether it
\* completes with success, completes with failure, or is rejected at
\* submission so that the hook never runs
C16_EventuallyDisposed ==
  \A i \in 1..MaxCalls :
    [](HasRequest(i) => <>Disposed(i))

\* C17: the scratch array of an asynchronous read holds at least the number
\* of bytes the engine is told it may store (the transfer length), and the
\* copy into the destination takes no more bytes than the array holds
C17_ScratchCapacity ==
  \A i \in Readers :
    LET c == calls[i]
    IN /\ Len(c.base) >= c.length
       /\ Len(c.request._byte_array) >= c.length
       /\ Succeeded(c) => c.result <= Len(c.request._byte_array)

\* the step is a blocking read that returns to its caller
SyncReadReturns ==
  /\ Len(calls') = Len(calls) + 1
  /\ calls'[Len(calls')].op = "read"
  /\ ~IsAsync(calls'[Len(calls')])
  /\ calls'[Len(calls')].state = "Returned"

\* C18: a blocking read changes the destination only in
\* [offset, offset + byteCount), byteCount being the bytes the engine read
\* and at most the length asked for; it copies no more bytes than the
\* transient buffer holds, and it leaves the destination as it was when the
\* read fails
C18_SyncReadFrame ==
  [][SyncReadReturns =>
       LET c == calls'[Len(calls')]
           byteCount == Max(c.result, 0)
       IN /\ c.result <= c.length
          /\ c.length <= Len(c.base)
          /\ \A j \in 1..Len(buffer) :
               ~(j > c.offset /\ j <= c.offset + byteCount) => buffer'[j] = buffer[j]
          /\ c.result < 0 => buffer' = buffer]_vars

\* the step is a write call, blocking or not, that returns to its caller
WriteCalled ==
  /\ Len(calls') = Len(calls) + 1
  /\ calls'[Len(calls')].op = "write"

\* the step is the hook run of the asynchronous write i
WriteCompletes(i) ==
  /\ calls[i].op = "write" /\ calls[i].state = "Submitted"
  /\ calls'[i].state = "Disposed"

\* C19: the bytes a write hands to the engine are the length bytes
\* source[offset .. offset + length), staged in a buffer of the bridge's own,
\* in either mode; the bytes the engine writes are taken from that buffer,
\* and the source array is never changed
C19_WriteStaging ==
  [][/\ WriteCalled =>
          LET c == calls'[Len(calls')]
          IN /\ Len(c.base) >= c.length
             /\ SubSeq(c.base, 1, c.length)
                  = SubSeq(buffer, c.offset + 1, c.offset + c.length)
             /\ Has(c.trace, "GetByteArrayRegion")
             /\ Has(c.trace, "new base") \/ Has(c.trace, "new byte_array")
             /\ IsAsync(c) => c.request._byte_array = c.base /\ file' = file
             /\ ~IsAsync(c) /\ c.result >= 0 =>
                  file' = WriteAt(file, SubSeq(c.base, 1, c.result))
             /\ buffer' = buffer
     /\ \A i \in CallIds :
          WriteCompletes(i) =>
            /\ calls'[i].request._byte_array = calls[i].base
            /\ calls'[i].result >= 0 =>
                 file' = WriteAt(file, SubSeq(calls[i].base, 1, calls'[i].result))
            /\ buffer' = buffer]_vars

\* an asynchronous write of the last two bytes of the source has completed
\* and the file holds them
C19_Witness ==
  \E i \in CallIds :
    /\ calls[i].op = "write" /\ IsAsync(calls[i]) /\ Succeeded(calls[i])
    /\ calls[i].offset = 1 /\ calls[i].length = 2 /\ calls[i].result = 2
    /\ SubSeq(calls[i].base, 1, 2) = SubSeq(SourceData, 2, 3)
    /\ SubSeq(file, 1, 2) = SubSeq(SourceData, 2, 3)
    /\ buffer = SourceData

\* a blocking call that has returned to its caller
SyncReturned(c) == ~IsAsync(c) /\ c.state = "Returned"

\* C20: every blocking call cleans up the engine's request structure exactly
\* once before it returns, after a success and after a failure alike, and
\* gives back every transient byte buffer and every path string it took
C20_SyncRelease ==
  \A i \in CallIds :
    LET c == calls[i]
    IN SyncReturned(c) =>
         /\ Count(c.trace, "uv_fs_req_cleanup") = 1
         /\ c.result < 0 => Count(c.trace, "ThrowException") = 1
         /\ Count(c.trace, "ReleaseStringUTFChars") = Count(c.trace, "GetStringUTFChars")
         /\ c.path # NullStr => Has(c.trace, "GetStringUTFChars")
         /\ c.op \in TwoPathKinds => Count(c.trace, "GetStringUTFChars") = 2
         /\ Count(c.trace, "delete base") = Count(c.trace, "new base")
         /\ c.op \in {"read", "write"} => Count(c.trace, "new base") = 1
         /\ Has(c.trace, "new base") =>
              Place(c.trace, "new base") < Place(c.trace, "delete base")

\* a blocking rename that failed and a blocking read that succeeded
C20_Witness ==
  \E i, j \in CallIds :
    /\ SyncReturned(calls[i]) /\ calls[i].op = "rename" /\ calls[i].result < 0
    /\ Count(calls[i].trace, "ReleaseStringUTFChars") = 2
    /\ SyncReturned(calls[j]) /\ calls[j].op = "read" /\ calls[j].result > 0
    /\ Has(calls[j].trace, "delete base")

\* C21: a contract violation never reaches the managed callback: no callback
\* is invoked with an argument that was never assigned (a completion whose
\* kind has no branch in the conversion), and none is invoked on a receiver
\* that was never bound (a dispatcher initialize was not called on)
C21_ContractViolationFatal ==
  \A i \in CallIds :
    \A k \in 1..Len(calls[i].callbacks) :
      /\ calls[i].callbacks[k].arg # JUndef
      /\ calls[i].callbacks[k].instance # Unbound


\* the kinds whose blocking call returns the value of the operation
ValueKinds == StatKinds \cup {"open", "read", "write", "readlink", "readdir"}

\* a blocking call that returned the value of a success
SyncValue(c) == SyncReturned(c) /\ c.result >= 0 /\ c.thrown = <<>>

\* a completion the hook converted as a success and delivered
AsyncValue(c) == IsAsync(c) /\ Succeeded(c) /\ Len(c.callbacks) = 1

\* the engine came back with the same outcome for both calls
SameOutcome(a, b) == a.op = b.op /\ a.result = b.result /\ a.ptr = b.ptr

\* the returned value x and the delivered value y of one kind are the same:
\* a count is compared as a number, every other value as it stands
SameValue(op, x, y) ==
  CASE op = "open" -> x = y /\ x.v[1] >= 0
    [] op = "read" -> x.v = y.elems[1].v
    [] op = "write" -> x.v = y.v
    [] OTHER -> x = y

\* C22: for the same outcome of the same operation the value a successful
\* blocking call returns is the value the callback of the asynchronous call
\* is given: the descriptor of open, the byte count of read and write, the
\* Stat value, the link string, the name sequence
C22_SyncMatchesAsync ==
  \A i, j \in CallIds :
    LET a == calls[i]
        b == calls[j]
    IN a.op \in ValueKinds /\ SyncValue(a) /\ AsyncValue(b) /\ SameOutcome(a, b) =>
         SameValue(a.op, a.ret, b.callbacks[1].arg)

\* a blocking stat and an asynchronous stat that both found the same structure
C22_Witness ==
  \E i, j \in CallIds :
    /\ calls[i].op = "stat" /\ SyncValue(calls[i]) /\ AsyncValue(calls[j])
    /\ SameOutcome(calls[i], calls[j])
    /\ calls[i].ptr.tag # "null"
    /\ calls[i].ret = calls[j].callbacks[1].arg


\* a stat, lstat or fstat whose req.ptr went through the Stat conversion: a
\* blocking call that returned, a completion the hook converted as a success
StatConverted(c) ==
  /\ c.op \in StatKinds
  /\ IF IsAsync(c) THEN c.state = "Disposed" /\ Succeeded(c) ELSE c.state = "Returned"

\* the product of a timestamp fits the width of time_t
Fits(t) == MinTime <= t * 1000 /\ t * 1000 <= MaxTime

HookDone(c) == IsAsync(c) /\ c.state = "Disposed"

\* C24: the steps of the completion hook are ordered: the callback is made
\* first, then the result data of the native request is cleaned up, then the
\* Request is disposed; so the reference to the destination buffer is given
\* up, and the scratch bytes and the result data are freed, only after the
\* callback
C24_HookOrder ==
  \A i \in CallIds :
    LET c == calls[i]
        cleanup == Place(c.trace, "uv_fs_req_cleanup")
        dispose == Place(c.trace, "delete request")
    IN HookDone(c) =>
         /\ CallbackSteps(c) >= 1
         /\ Count(c.trace, "uv_fs_req_cleanup") = 1
         /\ Count(c.trace, "delete request") = 1
         /\ \A k \in 1..Len(c.trace) :
              c.trace[k] \in {"callback_1arg", "callback_narg"} =>
                FirstCompletion(c) < k /\ k < cleanup
         /\ cleanup < dispose
         /\ \A step \in {"delete req", "delete byte_array", "DeleteGlobalRef"} :
              Has(c.trace, step) => cleanup < Place(c.trace, step)
         /\ \A step \in {"delete byte_array", "DeleteGlobalRef"} :
              Has(c.trace, step) => dispose < Place(c.trace, step)

\* a read that was given its bytes and a stat that was given its structure,
\* both called back and disposed
C24_Witness ==
  \E i, j \in CallIds :
    /\ HookDone(calls[i]) /\ calls[i].op = "read" /\ calls[i].result > 0
    /\ FirstCallback(calls[i]) < Place(calls[i].trace, "DeleteGlobalRef")
    /\ Has(calls[i].trace, "DeleteGlobalRef")
    /\ HookDone(calls[j]) /\ calls[j].op = "stat" /\ calls[j].ptr.tag # "null"
    /\ FirstCallback(calls[j]) < Place(calls[j].trace, "uv_fs_req_cleanup")
    /\ Has(calls[j].trace, "uv_fs_req_cleanup")


\* the step in which the hook runs for the asynchronous read i that the
\* engine reports as failed
ReadFails(i) ==
  /\ calls[i].op = "read" /\ IsAsync(calls[i])
  /\ calls[i].state = "Submitted" /\ calls'[i].state # "Submitted"
  /\ calls'[i].result < 0

\* what the destructor of the request of call c has to give back
Releases(c) ==
  /\ Count(c.trace, "DeleteGlobalRef") = Count(c.trace, "NewGlobalRef")
  /\ Count(c.trace, "delete byte_array") = Count(c.trace, "new byte_array")
  /\ Count(c.trace, "delete request") = 1
  /\ Count(c.trace, "uv_fs_req_cleanup") = 1

\* C25: when an asynchronous read completes with a failure the destination
\* buffer keeps its contents, the callback is given the error shape
\* (-1, exception), and the scratch bytes and the reference to the buffer are
\* given back as they are after a success
C25_FailedReadFrame ==
  [][\A i \in CallIds :
       ReadFails(i) =>
         /\ buffer' = buffer
         /\ calls'[i].state = "Disposed"
         /\ Len(calls'[i].callbacks) = 1
         /\ calls'[i].callbacks[1].method = "callback_narg"
         /\ Len(calls'[i].callbacks[1].arg.elems) = 2
         /\ calls'[i].callbacks[1].arg.elems[1] = JInteger(-1)
         /\ calls'[i].callbacks[1].arg.elems[2].type = "Exception"
         /\ calls'[i].callbacks[1].arg.elems[2].v = <<calls'[i].errorno>>
         /\ Releases(calls'[i])
         /\ Count(calls'[i].trace, "DeleteGlobalRef") = 1
         /\ calls'[i].request.alloc = "deleted"
         /\ globalRefs' = globalRefs - 1]_vars

\* a failed read with scratch bytes to free, disposed, next to a read that
\* succeeded and gave back the same things
C25_Witness ==
  \E i, j \in CallIds :
    /\ calls[i].op = "read" /\ HookDone(calls[i]) /\ Failed(calls[i])
    /\ Has(calls[i].trace, "delete byte_array")
    /\ Has(calls[i].trace, "DeleteGlobalRef")
    /\ calls[i].callbacks[1].arg.elems[1] = JInteger(-1)
    /\ calls[j].op = "read" /\ HookDone(calls[j]) /\ Succeeded(calls[j])
    /\ Releases(calls[i]) /\ Releases(calls[j])


\* the engine reported the operation of call c as failed
EngineFailed(c) == c.result < 0

\* the one callback of call c was given the error shape (-1, exception)
ErrorShaped(c) ==
  /\ Len(c.callbacks) = 1
  /\ c.callbacks[1].method = "callback_narg"
  /\ Len(c.callbacks[1].arg.elems) = 2
  /\ c.callbacks[1].arg.elems[1] = JInteger(-1)
  /\ c.callbacks[1].arg.elems[2].type = "Exception"

InFlight(j) ==
  /\ j \in CallIds
  /\ calls[j].state = "Submitted" /\ calls'[j].state = "Submitted"

====
